---------------------------- MODULE Spec2Model ----------------------------
(***************************************************************************)
(* The root finders of ZOF_PROJECT: the six methods of ZOF_CLI.py and the  *)
(* bisection and secant of app.py, one invocation per behaviour.           *)
(*                                                                         *)
(* Numbers.  A Python float is modelled by an integer k that stands for    *)
(* the real k * unit, with unit = 1e-12 / Eps (abscissas, function values, *)
(* errors and the tolerance all on the same grid).  Sums and differences   *)
(* are exact, a sign test of a product is the sign test of the integer     *)
(* product, and a quotient of two grid values times a grid value is one    *)
(* rounded division (FDiv), as a float quotient is rounded.  NaN, the      *)
(* infinities and underflow are not modelled: an evaluation yields a       *)
(* finite value or raises.                                                 *)
(***************************************************************************)
EXTENDS Integers, Sequences, FiniteSets, TLC

\* ------------------------------------------------------------- bounds
\* seeds a, b, x0, x1 are drawn from -MaxSeed..MaxSeed
MaxSeed == 3
\* max_iter is drawn from 0..MaxIter
MaxIter == 3
\* tol is drawn from 1..MaxTol
MaxTol == 2
\* every expression of the table is clipped to -FMax..FMax
FMax == 8

\* ------------------------------------------------- program constants
\* the threshold 1e-12 of the denominator tests, in grid units
Eps == 4

\* ------------------------------------------------------------ numbers
Abs(v) == IF v < 0 THEN -v ELSE v

\* n / d rounded to the nearest grid value (d # 0)
FDiv(n, d) ==
    IF d > 0 THEN (2 * n + d) \div (2 * d) ELSE (-2 * n - d) \div (-2 * d)

Clip(v) == IF v > FMax THEN FMax ELSE IF v < -FMax THEN -FMax ELSE v

\* ------------------------------------------------------- expressions
\* The expressions a caller may pass, named by their text; every one but
\* "x**" parses, "4/x" has no real value at 0.
Funcs == {"x-1", "x**2-4", "3", "2-x", "2*x+5", "4/x", "x**"}

\* the callables app.py builds never raise
AppFuncs == {"x-1", "x**2-4", "3", "2-x", "2*x+5"}

\* sp.sympify(func_str) fails
Malformed(func) == func = "x**"

\* evaluate_function raises ValueError at x_val
Raises(func, x_val) ==
    \/ Malformed(func)
    \/ func = "4/x" /\ x_val = 0

\* float(expr.subs(x, x_val)) where it is defined
Value(func, x_val) ==
    CASE func = "x-1"    -> Clip(x_val - 1)
      [] func = "x**2-4" -> IF Abs(x_val) > FMax THEN FMax
                            ELSE Clip(x_val * x_val - 4)
      [] func = "3"      -> 3
      [] func = "2-x"    -> Clip(2 - x_val)
      [] func = "2*x+5"  -> Clip(2 * x_val + 5)
      [] func = "4/x"    -> FDiv(4, x_val)
      [] OTHER           -> 0

\* The derivative sp.diff builds, evaluated at x_val: a slope is a ratio of
\* two grid values, kept as the pair <<numerator, denominator>>.
DerivValue(func, x_val) ==
    CASE func = "x-1"    -> IF Abs(x_val - 1) < FMax THEN <<1, 1>> ELSE <<0, 1>>
      [] func = "x**2-4" -> IF Abs(x_val) <= FMax /\ Abs(x_val * x_val - 4) < FMax
                            THEN <<2 * x_val, 1>> ELSE <<0, 1>>
      [] func = "3"      -> <<0, 1>>
      [] func = "2-x"    -> IF Abs(2 - x_val) < FMax THEN <<-1, 1>> ELSE <<0, 1>>
      [] func = "2*x+5"  -> IF Abs(2 * x_val + 5) < FMax THEN <<2, 1>> ELSE <<0, 1>>
      [] func = "4/x"    -> <<-4, x_val * x_val>>
      [] OTHER           -> <<0, 1>>

\* -------------------------------------------------------------- state
VARIABLES
    method,     \* the function called
    func_str,   \* the expression (app.py: the callable f)
    tol,
    max_iter,
    delta,      \* modified secant's perturbation fraction
    seed0,      \* the first seed as passed (a or x0)
    seed1,      \* the second seed as passed (b or x1)
    pc,         \* "call": not yet entered, "loop": between two passes, "done"
    i,          \* the loop variable: the passes completed (app.py: iter_count)
    a, b, fa, fb, c,
    x0, x1, x2,
    error,
    results,    \* the trace built so far (app.py: iterations)
    outcome,    \* "none", "result", "error" or "raise" (an exception leaves the call)
    ret,        \* the value returned
    stop        \* why the loop ended: "tol" (termination test), "cap" (max_iter) or "none"

inputs == <<method, func_str, tol, max_iter, delta, seed0, seed1>>
bracket == <<a, b, fa, fb, c>>
iterates == <<x0, x1, x2>>
vars == <<inputs, pc, i, bracket, iterates, error, results, outcome, ret, stop>>

CliMethods == {"bisection_method", "regula_falsi_method", "secant_method",
               "newton_raphson_method", "fixed_point_iteration",
               "modified_secant_method"}
AppMethods == {"bisection", "secant"}
Methods == CliMethods \cup AppMethods

Seeds == -MaxSeed..MaxSeed

\* A call about to start; locals not yet assigned read 0 (regula falsi's c, the
\* only local read before its first assignment in a pass, is assigned on entry).
Init ==
    /\ method \in Methods
    /\ func_str \in (IF method \in AppMethods THEN AppFuncs ELSE Funcs)
    /\ tol \in 1..MaxTol
    /\ max_iter \in 0..MaxIter
    /\ delta \in (IF method = "modified_secant_method" THEN {1, 2} ELSE {0})
    /\ seed0 \in Seeds
    /\ seed1 \in (IF method \in {"bisection_method", "regula_falsi_method",
                                 "secant_method", "bisection", "secant"}
                  THEN Seeds ELSE {0})
    /\ pc = "call"
    /\ i = 0
    /\ a = 0 /\ b = 0 /\ fa = 0 /\ fb = 0 /\ c = 0
    /\ x0 = 0 /\ x1 = 0 /\ x2 = 0
    /\ error = 0
    /\ results = <<>>
    /\ outcome = "none"
    /\ ret = [none |-> TRUE]
    /\ stop = "none"

\* ----------------------------------------------------- terminal values
\* return {"results": ..., "root": ..., "final_error": ..., "iterations": ...}
Success(res, root, err, iters) ==
    [results |-> res, root |-> root, final_error |-> err, iterations |-> iters]

\* mutant: the failure value also carries a trace
Failure_WithTrace(msg) == [error |-> msg, results |-> <<>>]

\* return {"error": "..."}
Failure(msg) == [error |-> msg]

\* app.py: return root, iterations
AppSuccess(root, its) == [root |-> root, iterations |-> its]

\* app.py: return None, "..."
AppFailure(msg) == [root_is_none |-> TRUE, message |-> msg]

\* the call ends by returning r
Return(kind, r, why) ==
    /\ pc' = "done"
    /\ outcome' = kind
    /\ ret' = r
    /\ stop' = why

\* the call ends by an exception that no handler of the method catches
Raise(exc) ==
    /\ pc' = "done"
    /\ outcome' = "raise"
    /\ ret' = [exception |-> exc]
    /\ stop' = "none"

\* the loop goes on to its next pass
Continue ==
    /\ pc' = "loop"
    /\ UNCHANGED <<outcome, ret, stop>>

\* mutant: exhausting max_iter is reported as a failure
LoopExhausted_AsFailure(res, root, err) ==
    Return("error", Failure("max_iter"), "cap")

\* the return after the loop of the four open methods:
\* return {"results": results, "root": ..., "final_error": error, "iterations": max_iter}
LoopExhausted(res, root, err) ==
    Return("result", Success(res, root, err, max_iter), "cap")

\* ------------------------------------------------------- shared tests
\* mutant: a zero at an endpoint passes the bracket test
InvalidBracket_Strict(fa_, fb_) == fa_ * fb_ > 0

\* if fa * fb >= 0
InvalidBracket(fa_, fb_) == fa_ * fb_ >= 0

\* if abs(...) < 1e-12
Degenerate(d) == Abs(d) < Eps

\* mutant: the termination test admits error = tol
StepStops_Inclusive(err, tol_) == err <= tol_

\* if error < tol
StepStops(err, tol_) == err < tol_

\* mutant: the trace is indexed from 0
TraceIndex_FromZero(i_) == i_ - 1

\* the index a pass gives its trace record: the loop variable
TraceIndex(i_) == i_

\* mutant: the endpoint replacement is the wrong way round
Narrow_Swapped(a_, b_, fa_, fb_, c_, fc_) ==
    IF fa_ * fc_ < 0
    THEN [a |-> c_, b |-> b_, fa |-> fc_, fb |-> fb_]
    ELSE [a |-> a_, b |-> c_, fa |-> fa_, fb |-> fc_]

\* if fa * fc < 0: b = c; fb = fc  else: a = c; fa = fc
Narrow(a_, b_, fa_, fb_, c_, fc_) ==
    IF fa_ * fc_ < 0
    THEN [a |-> a_, b |-> c_, fa |-> fa_, fb |-> fc_]
    ELSE [a |-> c_, b |-> b_, fa |-> fc_, fb |-> fb_]

\* ---------------------------------------------------------- bisection
\* error = abs(b - a)
BisectionError(a_, b_) == Abs(b_ - a_)

\* if abs(fc) < tol or error < tol
BisectionStops(fc_, err, tol_) == Abs(fc_) < tol_ \/ err < tol_

\* bisection_method up to its loop
bisection_method_enter ==
    /\ method = "bisection_method" /\ pc = "call"
    /\ UNCHANGED <<inputs, i, c, iterates, error, results>>
    /\ IF Raises(func_str, seed0) \/ Raises(func_str, seed1)
       THEN Raise("ValueError") /\ UNCHANGED <<a, b, fa, fb>>
       ELSE /\ a' = seed0 /\ b' = seed1
            /\ fa' = Value(func_str, seed0)
            /\ fb' = Value(func_str, seed1)
            /\ IF InvalidBracket(fa', fb')
               THEN Return("error", Failure("bracket"), "none")
               ELSE IF max_iter < 1
                    THEN Raise("UnboundLocalError")
                    ELSE Continue

\* one pass of bisection_method's loop, and the return that follows the last
bisection_method_iter ==
    /\ method = "bisection_method" /\ pc = "loop" /\ i < max_iter
    /\ UNCHANGED <<inputs, iterates>>
    /\ LET i_ == i + 1
           c_ == FDiv(a + b, 2)
       IN  IF Raises(func_str, c_)
           THEN Raise("ValueError") /\ UNCHANGED <<i, bracket, error, results>>
           ELSE LET fc_  == Value(func_str, c_)
                    err  == BisectionError(a, b)
                    res  == Append(results, [Iteration |-> TraceIndex(i_), a |-> a,
                                             b |-> b, c |-> c_, fc |-> fc_,
                                             Error |-> err])
                    n    == Narrow(a, b, fa, fb, c_, fc_)
                IN  /\ i' = i_ /\ c' = c_ /\ error' = err /\ results' = res
                    /\ IF BisectionStops(fc_, err, tol)
                       THEN /\ UNCHANGED <<a, b, fa, fb>>
                            /\ Return("result", Success(res, c_, err, i_), "tol")
                       ELSE /\ a' = n.a /\ b' = n.b /\ fa' = n.fa /\ fb' = n.fb
                            /\ IF i_ = max_iter
                               THEN Return("result", Success(res, c_, err, i_), "cap")
                               ELSE Continue

\* ------------------------------------------------------- regula falsi
\* if abs(fc) < tol
RegulaFalsiStops(fc_, tol_) == Abs(fc_) < tol_

\* c = (a * fb - b * fa) / (fb - fa)
FalsePosition(a_, b_, fa_, fb_) == FDiv(a_ * fb_ - b_ * fa_, fb_ - fa_)

\* regula_falsi_method up to its loop
regula_falsi_method_enter ==
    /\ method = "regula_falsi_method" /\ pc = "call"
    /\ UNCHANGED <<inputs, i, iterates, error, results>>
    /\ IF Raises(func_str, seed0) \/ Raises(func_str, seed1)
       THEN Raise("ValueError") /\ UNCHANGED <<a, b, fa, fb, c>>
       ELSE /\ a' = seed0 /\ b' = seed1
            /\ fa' = Value(func_str, seed0)
            /\ fb' = Value(func_str, seed1)
            /\ IF InvalidBracket(fa', fb')
               THEN Return("error", Failure("bracket"), "none") /\ UNCHANGED c
               ELSE /\ c' = seed0
                    /\ IF max_iter < 1
                       THEN Raise("UnboundLocalError")
                       ELSE Continue

\* one pass of regula_falsi_method's loop, and the return that follows the last
regula_falsi_method_iter ==
    /\ method = "regula_falsi_method" /\ pc = "loop" /\ i < max_iter
    /\ UNCHANGED <<inputs, iterates>>
    /\ LET i_ == i + 1
           c_ == FalsePosition(a, b, fa, fb)
       IN  IF Degenerate(fa - fb)
           THEN /\ Return("error", Failure("division"), "none")
                /\ UNCHANGED <<i, bracket, error, results>>
           ELSE IF Raises(func_str, c_)
           THEN Raise("ValueError") /\ UNCHANGED <<i, bracket, error, results>>
           ELSE LET fc_  == Value(func_str, c_)
                    err  == Abs(fc_)
                    res  == Append(results, [Iteration |-> TraceIndex(i_), a |-> a,
                                             b |-> b, c |-> c_, fc |-> fc_,
                                             Error |-> err])
                    n    == Narrow(a, b, fa, fb, c_, fc_)
                IN  /\ i' = i_ /\ c' = c_ /\ error' = err /\ results' = res
                    /\ IF RegulaFalsiStops(fc_, tol)
                       THEN /\ UNCHANGED <<a, b, fa, fb>>
                            /\ Return("result", Success(res, c_, err, i_), "tol")
                       ELSE /\ a' = n.a /\ b' = n.b /\ fa' = n.fa /\ fb' = n.fb
                            /\ IF i_ = max_iter
                               THEN Return("result", Success(res, c_, err, i_), "cap")
                               ELSE Continue

\* ------------------------------------------------------------- secant
\* x2 = x1 - f1 * (x1 - x0) / (f1 - f0)
SecantStep(x0_, x1_, f0_, f1_) == x1_ - FDiv(f1_ * (x1_ - x0_), f1_ - f0_)

\* secant_method up to its loop
secant_method_enter ==
    /\ method = "secant_method" /\ pc = "call"
    /\ UNCHANGED <<inputs, i, bracket, x2, error, results>>
    /\ x0' = seed0 /\ x1' = seed1
    /\ IF max_iter < 1 THEN Raise("UnboundLocalError") ELSE Continue

\* one pass of secant_method's loop, and the return that follows the last
secant_method_iter ==
    /\ method = "secant_method" /\ pc = "loop" /\ i < max_iter
    /\ UNCHANGED <<inputs, bracket>>
    /\ IF Raises(func_str, x0) \/ Raises(func_str, x1)
       THEN Raise("ValueError") /\ UNCHANGED <<i, iterates, error, results>>
       ELSE LET i_ == i + 1
                f0 == Value(func_str, x0)
                f1 == Value(func_str, x1)
                n2 == SecantStep(x0, x1, f0, f1)
                err == Abs(n2 - x1)
            IN  IF Degenerate(f1 - f0)
                THEN /\ Return("error", Failure("division"), "none")
                     /\ UNCHANGED <<i, iterates, error, results>>
                ELSE IF Raises(func_str, n2)
                THEN Raise("ValueError") /\ UNCHANGED <<i, iterates, error, results>>
                ELSE LET res == Append(results, [Iteration |-> TraceIndex(i_),
                                                 x0 |-> x0, x1 |-> x1, x2 |-> n2,
                                                 fx2 |-> Value(func_str, n2),
                                                 Error |-> err])
                     IN  /\ i' = i_ /\ x2' = n2 /\ error' = err /\ results' = res
                         /\ IF StepStops(err, tol)
                            THEN /\ UNCHANGED <<x0, x1>>
                                 /\ Return("result", Success(res, n2, err, i_), "tol")
                            ELSE /\ x0' = x1 /\ x1' = n2
                                 /\ IF i_ = max_iter
                                    THEN LoopExhausted(res, n2, err)
                                    ELSE Continue

\* ----------------------------------------------------- Newton-Raphson
\* if abs(df0) < 1e-12: a slope num/den of two grid values is below 1e-12
\* only when num = 0
ZeroDerivative(df) == df[1] = 0

\* x1 = x0 - f0 / df0
NewtonStep(x0_, f0_, df) == x0_ - FDiv(f0_ * df[2], df[1])

\* newton_raphson_method up to its loop: get_derivative parses the expression
newton_raphson_method_enter ==
    /\ method = "newton_raphson_method" /\ pc = "call"
    /\ UNCHANGED <<inputs, i, bracket, x1, x2, error, results>>
    /\ x0' = seed0
    /\ IF Malformed(func_str)
       THEN Raise("SympifyError")
       ELSE IF max_iter < 1 THEN Raise("UnboundLocalError") ELSE Continue

\* one pass of newton_raphson_method's loop, and the return that follows the last
newton_raphson_method_iter ==
    /\ method = "newton_raphson_method" /\ pc = "loop" /\ i < max_iter
    /\ UNCHANGED <<inputs, bracket, x2>>
    /\ IF Raises(func_str, x0)
       THEN Raise("ValueError") /\ UNCHANGED <<i, x0, x1, error, results>>
       ELSE LET i_ == i + 1
                f0 == Value(func_str, x0)
                df0 == DerivValue(func_str, x0)
                n1 == NewtonStep(x0, f0, df0)
                err == Abs(n1 - x0)
                res == Append(results, [Iteration |-> TraceIndex(i_), x0 |-> x0,
                                        fx |-> f0, dfx |-> df0, x1 |-> n1,
                                        Error |-> err])
            IN  IF ZeroDerivative(df0)
                THEN /\ Return("error", Failure("derivative"), "none")
                     /\ UNCHANGED <<i, x0, x1, error, results>>
                ELSE /\ i' = i_ /\ x1' = n1 /\ error' = err /\ results' = res
                     /\ IF StepStops(err, tol)
                        THEN /\ UNCHANGED x0
                             /\ Return("result", Success(res, n1, err, i_), "tol")
                        ELSE /\ x0' = n1
                             /\ IF i_ = max_iter
                                THEN LoopExhausted(res, n1, err)
                                ELSE Continue

\* -------------------------------------------------------- fixed point
\* fixed_point_iteration up to its loop
fixed_point_iteration_enter ==
    /\ method = "fixed_point_iteration" /\ pc = "call"
    /\ UNCHANGED <<inputs, i, bracket, x1, x2, error, results>>
    /\ x0' = seed0
    /\ IF max_iter < 1 THEN Raise("UnboundLocalError") ELSE Continue

\* one pass of fixed_point_iteration's loop, and the return that follows the last
fixed_point_iteration_iter ==
    /\ method = "fixed_point_iteration" /\ pc = "loop" /\ i < max_iter
    /\ UNCHANGED <<inputs, bracket, x2>>
    /\ IF Raises(func_str, x0)
       THEN Raise("ValueError") /\ UNCHANGED <<i, x0, x1, error, results>>
       ELSE LET i_ == i + 1
                n1 == Value(func_str, x0)
                err == Abs(n1 - x0)
                res == Append(results, [Iteration |-> TraceIndex(i_), x0 |-> x0,
                                        gx |-> n1, Error |-> err])
            IN  /\ i' = i_ /\ x1' = n1 /\ error' = err /\ results' = res
                /\ IF StepStops(err, tol)
                   THEN /\ UNCHANGED x0
                        /\ Return("result", Success(res, n1, err, i_), "tol")
                   ELSE /\ x0' = n1
                        /\ IF i_ = max_iter
                           THEN LoopExhausted(res, n1, err)
                           ELSE Continue

\* ---------------------------------------------------- modified secant
\* x1 = x0 - (delta * x0 * f0) / denom
ModifiedSecantStep(x0_, delta_, f0_, denom) == x0_ - FDiv(delta_ * x0_ * f0_, denom)

\* modified_secant_method up to its loop
modified_secant_method_enter ==
    /\ method = "modified_secant_method" /\ pc = "call"
    /\ UNCHANGED <<inputs, i, bracket, x1, x2, error, results>>
    /\ x0' = seed0
    /\ IF max_iter < 1 THEN Raise("UnboundLocalError") ELSE Continue

\* one pass of modified_secant_method's loop, and the return that follows the last
modified_secant_method_iter ==
    /\ method = "modified_secant_method" /\ pc = "loop" /\ i < max_iter
    /\ UNCHANGED <<inputs, bracket, x2>>
    /\ IF Raises(func_str, x0) \/ Raises(func_str, x0 + delta * x0)
       THEN Raise("ValueError") /\ UNCHANGED <<i, x0, x1, error, results>>
       ELSE LET i_ == i + 1
                f0 == Value(func_str, x0)
                f_delta == Value(func_str, x0 + delta * x0)
                denom == f_delta - f0
                n1 == ModifiedSecantStep(x0, delta, f0, denom)
                err == Abs(n1 - x0)
                res == Append(results, [Iteration |-> TraceIndex(i_), x0 |-> x0,
                                        x1 |-> n1, fx |-> f0, Error |-> err])
            IN  IF Degenerate(denom)
                THEN /\ Return("error", Failure("division"), "none")
                     /\ UNCHANGED <<i, x0, x1, error, results>>
                ELSE /\ i' = i_ /\ x1' = n1 /\ error' = err /\ results' = res
                     /\ IF StepStops(err, tol)
                        THEN /\ UNCHANGED x0
                             /\ Return("result", Success(res, n1, err, i_), "tol")
                        ELSE /\ x0' = n1
                             /\ IF i_ = max_iter
                                THEN LoopExhausted(res, n1, err)
                                ELSE Continue

\* ------------------------------------------------------------- app.py
\* "n": iter_count + 1
AppTraceIndex(iter_count) == iter_count + 1

\* error = abs(b - a) / 2
AppBisectionError(a_, b_) == FDiv(Abs(b_ - a_), 2)

\* while (b - a) > tol and iter_count < max_iter
AppBisectionLoops(a_, b_, iter_count) == (b_ - a_) > tol /\ iter_count < max_iter

\* if f(x1) - f(x0) == 0
AppDegenerate(d) == d = 0

\* bisection's exit from its loop: return (a + b)/2, iterations
AppBisectionExit(a_, b_, its) ==
    Return("result", AppSuccess(FDiv(a_ + b_, 2), its),
           IF (b_ - a_) > tol THEN "cap" ELSE "tol")

\* app.py's bisection up to the first test of its loop
bisection_enter ==
    /\ method = "bisection" /\ pc = "call"
    /\ UNCHANGED <<inputs, i, fa, fb, c, iterates, error, results>>
    /\ a' = seed0 /\ b' = seed1
    /\ IF InvalidBracket(Value(func_str, seed0), Value(func_str, seed1))
       THEN Return("error", AppFailure("bracket"), "none")
       ELSE IF AppBisectionLoops(seed0, seed1, 0)
            THEN Continue
            ELSE AppBisectionExit(seed0, seed1, <<>>)

\* one pass of bisection's loop, the loop test and the return that follows the last
bisection_iter ==
    /\ method = "bisection" /\ pc = "loop"
    /\ UNCHANGED <<inputs, fa, fb, iterates>>
    /\ LET c_   == FDiv(a + b, 2)
           fc_  == Value(func_str, c_)
           err  == AppBisectionError(a, b)
           res  == Append(results, [n |-> AppTraceIndex(i), a |-> a, b |-> b,
                                    c |-> c_, fc |-> fc_, error |-> err])
           n    == Narrow(a, b, Value(func_str, a), Value(func_str, b), c_, fc_)
       IN  /\ c' = c_ /\ error' = err /\ results' = res
           /\ IF Abs(fc_) < tol
              THEN /\ UNCHANGED <<i, a, b>>
                   /\ Return("result", AppSuccess(c_, res), "tol")
              ELSE /\ a' = n.a /\ b' = n.b /\ i' = i + 1
                   /\ IF AppBisectionLoops(n.a, n.b, i + 1)
                      THEN Continue
                      ELSE AppBisectionExit(n.a, n.b, res)

\* app.py's secant up to the first test of its loop
secant_enter ==
    /\ method = "secant" /\ pc = "call"
    /\ UNCHANGED <<inputs, i, bracket, x2, error, results>>
    /\ x0' = seed0 /\ x1' = seed1
    /\ IF max_iter < 1 THEN Raise("UnboundLocalError") ELSE Continue

\* one pass of secant's loop, the loop test and the return that follows the last
secant_iter ==
    /\ method = "secant" /\ pc = "loop" /\ i < max_iter
    /\ UNCHANGED <<inputs, bracket>>
    /\ LET f0 == Value(func_str, x0)
           f1 == Value(func_str, x1)
           n2 == SecantStep(x0, x1, f0, f1)
           err == Abs(n2 - x1)
           res == Append(results, [n |-> AppTraceIndex(i), x0 |-> x0, x1 |-> x1,
                                   x2 |-> n2, fx2 |-> Value(func_str, n2),
                                   error |-> err])
       IN  IF AppDegenerate(f1 - f0)
           THEN /\ Return("error", AppFailure("division"), "none")
                /\ UNCHANGED <<i, iterates, error, results>>
           ELSE /\ x2' = n2 /\ error' = err /\ results' = res
                /\ IF StepStops(err, tol)
                   THEN /\ UNCHANGED <<i, x0, x1>>
                        /\ Return("result", AppSuccess(n2, res), "tol")
                   ELSE /\ x0' = x1 /\ x1' = n2 /\ i' = i + 1
                        /\ IF i + 1 < max_iter
                           THEN Continue
                           ELSE Return("result", AppSuccess(n2, res), "cap")

Next ==
    \/ bisection_method_enter
    \/ bisection_method_iter
    \/ regula_falsi_method_enter
    \/ regula_falsi_method_iter
    \/ secant_method_enter
    \/ secant_method_iter
    \/ newton_raphson_method_enter
    \/ newton_raphson_method_iter
    \/ fixed_point_iteration_enter
    \/ fixed_point_iteration_iter
    \/ modified_secant_method_enter
    \/ modified_secant_method_iter
    \/ bisection_enter
    \/ bisection_iter
    \/ secant_enter
    \/ secant_iter

Spec == Init /\ [][Next]_vars

\* ------------------------------------------------------------- claims
BracketMethods == {"bisection_method", "regula_falsi_method"}
DenominatorMethods == {"regula_falsi_method", "secant_method", "modified_secant_method"}

\* the trace a successful call returned, and a record's index in it
ReturnedTrace == IF method \in AppMethods THEN ret.iterations ELSE ret.results
IndexOf(rec) == IF method \in AppMethods THEN rec.n ELSE rec.Iteration

\* C1: every call of a ZOF_CLI.py method with max_iter >= 1 ends by returning a
\* Result or a failure value, never by an exception leaving the method.
C1_StructuredOutcome ==
    (method \in CliMethods /\ max_iter >= 1 /\ pc = "done")
        => outcome \in {"result", "error"}

\* a failure on a degenerate denominator
DivisionFailure ==
    /\ method \in DenominatorMethods
    /\ outcome = "error"
    /\ ret.error = "division"

C3_ContiguousIndices ==
    max_iter >= 1 =>
        /\ Len(results) <= max_iter
        /\ \A j \in 1..Len(results) : IndexOf(results[j]) = j
        /\ outcome = "result" => ReturnedTrace = results

C3_Witness == outcome = "result" /\ Len(ReturnedTrace) >= 3

\* the bracket [a, b] has passed the sign test and is the current one
BracketLive ==
    /\ method \in BracketMethods \cup {"bisection"}
    /\ pc = "loop" \/ (pc = "done" /\ outcome = "result")

\* C4: in bisection and regula falsi the bracket satisfies f(a)*f(b) <= 0 after
\* every endpoint replacement (and the cached fa, fb are f(a), f(b)).
C4_SignChangeKept ==
    BracketLive =>
        /\ Value(func_str, a) * Value(func_str, b) <= 0
        /\ method \in BracketMethods =>
               fa = Value(func_str, a) /\ fb = Value(func_str, b)

C4_Witness == BracketLive /\ i >= 2 /\ a # seed0 /\ b # seed1

\* the seeds evaluate and are no strict sign change
NoSignChange ==
    /\ method \in BracketMethods
    /\ ~Raises(func_str, seed0) /\ ~Raises(func_str, seed1)
    /\ ~(Value(func_str, seed0) * Value(func_str, seed1) < 0)

\* C5: bisection_method and regula_falsi_method on a bracket without a strict
\* sign change return the invalid-bracket failure before the loop: no pass is
\* made and no record, root or midpoint is produced.
C5_InvalidBracketFails ==
    (NoSignChange /\ pc # "call") =>
        /\ pc = "done" /\ outcome = "error"
        /\ DOMAIN ret = {"error"} /\ ret.error = "bracket"
        /\ i = 0 /\ results = <<>>

C5_Witness ==
    /\ NoSignChange /\ pc = "done"
    /\ Value(func_str, seed0) = 0 /\ Value(func_str, seed1) # 0

\* the root estimate a ZOF_CLI.py trace record stores
RootOf(rec) ==
    CASE method \in BracketMethods         -> rec.c
      [] method = "secant_method"          -> rec.x2
      [] method = "fixed_point_iteration"  -> rec.gx
      [] OTHER                             -> rec.x1

\* the termination test of the method, read off a ZOF_CLI.py trace record
ToleranceMet(rec) ==
    CASE method = "bisection_method"    -> Abs(rec.fc) < tol \/ rec.Error < tol
      [] method = "regula_falsi_method" -> Abs(rec.fc) < tol
      [] OTHER                          -> rec.Error < tol

\* max_iter passes are complete and the last did not meet the termination test
CappedOut ==
    /\ method \in CliMethods
    /\ max_iter >= 1
    /\ Len(results) = max_iter
    /\ ~ToleranceMet(results[max_iter])

\* C6: a ZOF_CLI.py method whose max_iter passes complete without the
\* termination test being met returns a Result, not a failure, with the root
\* estimate and the error of pass max_iter, iterations = max_iter and the full
\* trace of max_iter records.
C6_CapIsSuccess ==
    CappedOut =>
        /\ pc = "done" /\ outcome = "result" /\ stop = "cap"
        /\ ret = Success(results, RootOf(results[max_iter]),
                         results[max_iter].Error, max_iter)

C6_Witness == CappedOut /\ max_iter >= 2 /\ method = "secant_method"

\* C7 as stated: in a Result of any ZOF_CLI.py method, final_error < tol holds
\* exactly when the run stopped on its termination test, and final_error >= tol
\* exactly when it stopped only because max_iter was exhausted.
C7_ErrorTellsConvergence ==
    (method \in CliMethods /\ outcome = "result") =>
        /\ ret.final_error < tol <=> stop = "tol"
        /\ ret.final_error >= tol <=> stop = "cap"

\* C7 as amended: the equivalence holds for every ZOF_CLI.py method but
\* bisection; in bisection final_error < tol implies that the run stopped on its
\* termination test, and a run that stopped on that test has |f(root)| < tol or
\* final_error < tol, so it may carry final_error >= tol.
C7_ErrorTellsConvergenceButBisection ==
    (method \in CliMethods /\ outcome = "result") =>
        /\ method # "bisection_method" =>
               /\ ret.final_error < tol <=> stop = "tol"
               /\ ret.final_error >= tol <=> stop = "cap"
        /\ method = "bisection_method" =>
               /\ ret.final_error < tol => stop = "tol"
               /\ stop = "tol" <=>
                      \/ Abs(Value(func_str, ret.root)) < tol
                      \/ ret.final_error < tol

C7_Witness ==
    /\ method = "bisection_method" /\ outcome = "result"
    /\ stop = "tol" /\ ret.final_error >= tol

\* C8: no secant pass, of ZOF_CLI.py or of app.py, completes a record over a
\* denominator |f(x1) - f(x0)| < 1e-12, and a call with x0 = x1 fails on its
\* first pass with no record.
C8_SecantRejectsTinyDenominator ==
    method \in {"secant_method", "secant"} =>
        /\ \A j \in 1..Len(results) :
               Abs(Value(func_str, results[j].x1) - Value(func_str, results[j].x0)) >= Eps
        /\ (seed0 = seed1 /\ pc = "done" /\ max_iter >= 1 /\ ~Raises(func_str, seed0))
               => (outcome = "error" /\ results = <<>>)

\* the error a bisection trace record stores
ErrorOf(rec) == IF method \in AppMethods THEN rec.error ELSE rec.Error

\* C9: every bisection trace record, of ZOF_CLI.py or of app.py, stores as its
\* error the full width |b - a| of the bracket stored in the same record.
C9_ErrorIsFullWidth ==
    method \in {"bisection_method", "bisection"} =>
        \A j \in 1..Len(results) :
            ErrorOf(results[j]) = Abs(results[j].b - results[j].a)

\* C10: a call with max_iter >= 1 makes at most max_iter passes and, once over,
\* has produced exactly one of a Result and a failure.
C10_OneTerminalOutcome ==
    max_iter >= 1 =>
        /\ i <= max_iter /\ Len(results) <= max_iter
        /\ pc = "done" =>
               Cardinality({k \in {"result", "error"} : outcome = k}) = 1
        /\ pc # "done" => outcome = "none"

\* the last record of the trace a successful call returned
LastRecord == ReturnedTrace[Len(ReturnedTrace)]

\* C11: every successful Result of a call with max_iter >= 1, of a ZOF_CLI.py
\* method or of app.py's bisection, agrees with the last record of its trace: the trace is not empty,
\* the root is the root estimate of the last record (bisection: its midpoint
\* c), and final_error and iterations, where the Result has them, are that
\* record's error and the number of records.
C11_ResultMatchesLastRecord ==
    (method \in CliMethods \cup {"bisection"} /\ max_iter >= 1
                                              /\ outcome = "result") =>
        /\ Len(ReturnedTrace) >= 1
        /\ ret.root = (IF method = "bisection" THEN LastRecord.c
                       ELSE RootOf(LastRecord))
        /\ method \in CliMethods =>
               /\ ret.final_error = LastRecord.Error
               /\ ret.iterations = Len(ReturnedTrace)

=============================================================================
